---- MODULE Spec2Model ----
(***************************************************************************)
(* Model of anki-mcp-server: the tool bindings of server.py, the parameter *)
(* shapes of model.py, the Anki-Connect client of anki_connect_client.py   *)
(* and the response normalisation of utils.py.                             *)
(*                                                                         *)
(* Python values are tagged tuples <<tag, payload>>; JSON documents are    *)
(* tagged tuples of their own, so that json.dumps / response.json() are    *)
(* real conversions between the two.                                       *)
(***************************************************************************)
EXTENDS Integers, Sequences, FiniteSets, TLC

(***************************************************************************)
(* Bounds                                                                  *)
(***************************************************************************)
\* number of tool calls the host may have in progress at once
NumCalls == 2
MaxClients == 2
MaxPosts == 2

Procs == 1..NumCalls

(***************************************************************************)
(* Python values                                                           *)
(***************************************************************************)
PyNone == <<"NoneType">>
PyBool(b) == <<"bool", b>>
PyInt(n) == <<"int", n>>
PyStr(s) == <<"str", s>>
PyList(xs) == <<"list", xs>>
\* an ordered dict: a sequence of <<key, value>> pairs with distinct keys
PyDict(kvs) == <<"dict", kvs>>
\* an instance of a pydantic BaseModel subclass, fields in declaration order
PyModel(kvs) == <<"BaseModel", kvs>>

PyTrue == PyBool(TRUE)
PyFalse == PyBool(FALSE)

IsNone(v) == v[1] = "NoneType"

\* the keys of an ordered dict
Keys(kvs) == {kvs[i][1] : i \in 1..Len(kvs)}

\* dict.get(key): the value stored under key, None when the key is absent
DictGet(kvs, key) ==
    IF key \in Keys(kvs)
    THEN LET i == CHOOSE j \in 1..Len(kvs) : kvs[j][1] = key IN kvs[i][2]
    ELSE PyNone

\* Python truth value: bool(v).  A BaseModel instance defines neither
\* __bool__ nor __len__, so it is always true.
Truthy(v) ==
    CASE v[1] = "NoneType" -> FALSE
      [] v[1] = "bool" -> v[2]
      [] v[1] = "int" -> v[2] # 0
      [] v[1] = "str" -> v[2] # ""
      [] v[1] = "list" -> Len(v[2]) > 0
      [] v[1] = "dict" -> Len(v[2]) > 0
      [] OTHER -> TRUE

\* Python's  a or b
PyOr(a, b) == IF Truthy(a) THEN a ELSE b

(***************************************************************************)
(* JSON documents and the two conversions                                  *)
(***************************************************************************)
JNull == <<"null">>
JTrue == <<"true">>
JFalse == <<"false">>
JNumber(n) == <<"number", n>>
JString(s) == <<"string", s>>
JArray(xs) == <<"array", xs>>
\* members in document order
JObject(ms) == <<"object", ms>>

RECURSIVE JsonDumps(_)
\* json.dumps: Python value to JSON document
JsonDumps(v) ==
    CASE v[1] = "NoneType" -> JNull
      [] v[1] = "bool" -> IF v[2] THEN JTrue ELSE JFalse
      [] v[1] = "int" -> JNumber(v[2])
      [] v[1] = "str" -> JString(v[2])
      [] v[1] = "list" -> JArray([i \in 1..Len(v[2]) |-> JsonDumps(v[2][i])])
      [] v[1] = "dict" ->
            JObject([i \in 1..Len(v[2]) |-> <<v[2][i][1], JsonDumps(v[2][i][2])>>])

RECURSIVE JsonLoads(_)
\* json.loads / response.json(): JSON document to Python value
JsonLoads(d) ==
    CASE d[1] = "null" -> PyNone
      [] d[1] = "true" -> PyTrue
      [] d[1] = "false" -> PyFalse
      [] d[1] = "number" -> PyInt(d[2])
      [] d[1] = "string" -> PyStr(d[2])
      [] d[1] = "array" -> PyList([i \in 1..Len(d[2]) |-> JsonLoads(d[2][i])])
      [] d[1] = "object" ->
            PyDict([i \in 1..Len(d[2]) |-> <<d[2][i][1], JsonLoads(d[2][i][2])>>])

(***************************************************************************)
(* Parameter shapes (model.py) and their validation                        *)
(***************************************************************************)
\* the marker of Field(...): the field is required
Required == <<"Ellipsis">>

FieldInfo(name, type, default) == [name |-> name, type |-> type, default |-> default]

NoParams == <<>>

CardsParam == <<FieldInfo("cards", "List[int]", Required)>>

SuspendCardsParams == CardsParam

DeleteDecksParams ==
    <<FieldInfo("decks", "List[str]", Required),
      FieldInfo("cardsToo", "Literal[True]", Required)>>

GetIntervalsParams ==
    CardsParam \o <<FieldInfo("complete", "Optional[bool]", PyFalse)>>

ApiReflectParams ==
    <<FieldInfo("scopes", "Optional[List[Literal['actions']]]", PyNone),
      FieldInfo("actions", "Optional[List[str]]", PyNone)>>

DeckConfigObject ==
    <<FieldInfo("id", "int", Required),
      FieldInfo("name", "str", Required),
      FieldInfo("mod", "Optional[int]", PyNone),
      FieldInfo("usn", "Optional[int]", PyNone),
      FieldInfo("dyn", "Optional[bool]", PyNone),
      FieldInfo("autoplay", "Optional[bool]", PyNone),
      FieldInfo("timer", "Optional[int]", PyNone),
      FieldInfo("replayq", "Optional[bool]", PyNone),
      FieldInfo("maxTaken", "Optional[int]", PyNone),
      FieldInfo("new", "Optional[DeckConfigNewOptions]", PyNone),
      FieldInfo("lapse", "Optional[DeckConfigLapseOptions]", PyNone),
      FieldInfo("rev", "Optional[DeckConfigRevOptions]", PyNone),
      FieldInfo("other", "Optional[Dict[str, Any]]", PyNone)>>

SaveDeckConfigParams == <<FieldInfo("config", "DeckConfigObject", Required)>>

StoreMediaFileParams ==
    <<FieldInfo("filename", "str", Required),
      FieldInfo("data", "Optional[str]", PyNone),
      FieldInfo("path", "Optional[str]", PyNone),
      FieldInfo("url", "Optional[str]", PyNone),
      FieldInfo("deleteExisting", "Optional[bool]", PyTrue)>>

DeckNameParam == <<FieldInfo("deck", "str", Required)>>

ExportPackageParams ==
    DeckNameParam
    \o <<FieldInfo("path", "str", Required),
         FieldInfo("includeSched", "Optional[bool]", PyFalse)>>

\* the nested option objects are checked here only for being objects
OptionalObjectTypes ==
    {"Optional[DeckConfigNewOptions]", "Optional[DeckConfigLapseOptions]",
     "Optional[DeckConfigRevOptions]", "Optional[Dict[str, Any]]"}

RECURSIVE HasType_literal_as_bool(_, _)
\* a variant in which Literal[True] is checked as a plain bool
HasType_literal_as_bool(v, type) ==
    CASE type = "int" -> v[1] = "int"
      [] type = "str" -> v[1] = "str"
      [] type = "List[int]" ->
            v[1] = "list" /\ \A i \in 1..Len(v[2]) : v[2][i][1] = "int"
      [] type = "List[str]" ->
            v[1] = "list" /\ \A i \in 1..Len(v[2]) : v[2][i][1] = "str"
      [] type = "Literal[True]" -> v[1] = "bool"
      [] type = "Optional[bool]" -> v[1] \in {"NoneType", "bool"}
      [] type = "Optional[int]" -> v[1] \in {"NoneType", "int"}
      [] type = "Optional[str]" -> v[1] \in {"NoneType", "str"}
      [] type = "Optional[List[str]]" ->
            \/ v[1] = "NoneType"
            \/ v[1] = "list" /\ \A i \in 1..Len(v[2]) : v[2][i][1] = "str"
      [] type = "Optional[List[Literal['actions']]]" ->
            \/ v[1] = "NoneType"
            \/ v[1] = "list" /\ \A i \in 1..Len(v[2]) : v[2][i] = PyStr("actions")
      [] type \in OptionalObjectTypes -> v[1] \in {"NoneType", "dict"}
      [] type = "DeckConfigObject" ->
            /\ v[1] = "dict"
            /\ \A j \in 1..Len(DeckConfigObject) :
                    IF DeckConfigObject[j].name \in Keys(v[2])
                    THEN HasType_literal_as_bool(DictGet(v[2], DeckConfigObject[j].name),
                                 DeckConfigObject[j].type)
                    ELSE DeckConfigObject[j].default # Required

RECURSIVE HasType(_, _)
\* does the value belong to the annotated type
HasType(v, type) ==
    CASE type = "int" -> v[1] = "int"
      [] type = "str" -> v[1] = "str"
      [] type = "List[int]" ->
            v[1] = "list" /\ \A i \in 1..Len(v[2]) : v[2][i][1] = "int"
      [] type = "List[str]" ->
            v[1] = "list" /\ \A i \in 1..Len(v[2]) : v[2][i][1] = "str"
      [] type = "Literal[True]" -> v = PyTrue
      [] type = "Optional[bool]" -> v[1] \in {"NoneType", "bool"}
      [] type = "Optional[int]" -> v[1] \in {"NoneType", "int"}
      [] type = "Optional[str]" -> v[1] \in {"NoneType", "str"}
      [] type = "Optional[List[str]]" ->
            \/ v[1] = "NoneType"
            \/ v[1] = "list" /\ \A i \in 1..Len(v[2]) : v[2][i][1] = "str"
      [] type = "Optional[List[Literal['actions']]]" ->
            \/ v[1] = "NoneType"
            \/ v[1] = "list" /\ \A i \in 1..Len(v[2]) : v[2][i] = PyStr("actions")
      [] type \in OptionalObjectTypes -> v[1] \in {"NoneType", "dict"}
      [] type = "DeckConfigObject" ->
            /\ v[1] = "dict"
            /\ \A j \in 1..Len(DeckConfigObject) :
                    IF DeckConfigObject[j].name \in Keys(v[2])
                    THEN HasType(DictGet(v[2], DeckConfigObject[j].name),
                                 DeckConfigObject[j].type)
                    ELSE DeckConfigObject[j].default # Required

\* a variant that reports the parameter object as a whole, not the fields
FieldErrors_unnamed(shape, raw) ==
    IF \E j \in 1..Len(shape) :
            IF shape[j].name \in Keys(raw)
            THEN ~HasType(DictGet(raw, shape[j].name), shape[j].type)
            ELSE shape[j].default = Required
    THEN {"params"}
    ELSE {}

\* the fields whose validation fails: required and missing, or of another type
FieldErrors(shape, raw) ==
    {shape[i].name : i \in
        {j \in 1..Len(shape) :
            IF shape[j].name \in Keys(raw)
            THEN ~HasType(DictGet(raw, shape[j].name), shape[j].type)
            ELSE shape[j].default = Required}}

FieldNames(shape) == {shape[i].name : i \in 1..Len(shape)}

\* the declared fields in declaration order, each with the given value or
\* its default
DeclaredFields(shape, raw) ==
    [i \in 1..Len(shape) |->
        <<shape[i].name,
          IF shape[i].name \in Keys(raw)
          THEN DictGet(raw, shape[i].name)
          ELSE shape[i].default>>]

\* the given keys that the shape does not declare, in the order given
ExtraFields(shape, raw) ==
    SelectSeq(raw, LAMBDA kv : kv[1] \notin FieldNames(shape))

\* a field value as the model holds it: a DeckConfigObject is a model of its
\* own, with  class Config: extra = 'allow'  keeping the undeclared keys
FieldValue(type, v) ==
    IF type = "DeckConfigObject"
    THEN PyModel(DeclaredFields(DeckConfigObject, v[2])
                 \o ExtraFields(DeckConfigObject, v[2]))
    ELSE v

\* the validated model of a tool's params: no class of model.py but
\* DeckConfigObject sets extra, so undeclared keys are ignored (the default)
ModelValidate(shape, raw) ==
    PyModel([i \in 1..Len(shape) |->
                <<shape[i].name,
                  FieldValue(shape[i].type, DeclaredFields(shape, raw)[i][2])>>])

RECURSIVE model_dump_drops_falsy(_)
\* a variant that drops every false value, not only None
model_dump_drops_falsy(model) ==
    LET kept == SelectSeq(model[2], LAMBDA kv : kv[2][1] = "BaseModel" \/ Truthy(kv[2]))
    IN  PyDict([i \in 1..Len(kept) |->
            <<kept[i][1],
              IF kept[i][2][1] = "BaseModel"
              THEN model_dump_drops_falsy(kept[i][2])
              ELSE kept[i][2]>>])

RECURSIVE model_dump(_)
\* model.model_dump(exclude_none=True), nested models included
model_dump(model) ==
    LET kept == SelectSeq(model[2], LAMBDA kv : ~IsNone(kv[2]))
    IN  PyDict([i \in 1..Len(kept) |->
            <<kept[i][1],
              IF kept[i][2][1] = "BaseModel" THEN model_dump(kept[i][2]) ELSE kept[i][2]>>])

(***************************************************************************)
(* The tool bindings (server.py)                                           *)
(***************************************************************************)
Binding(action, shape) == [action |-> action, shape |-> shape]

Tools ==
    {"anki_get_deck_names", "anki_suspend_cards", "anki_delete_decks",
     "anki_get_card_intervals", "anki_api_reflect", "anki_save_deck_config",
     "anki_store_media_file", "anki_export_package"}

ToolBinding(name) ==
    CASE name = "anki_get_deck_names" -> Binding("deckNames", NoParams)
      [] name = "anki_suspend_cards" -> Binding("suspend", SuspendCardsParams)
      [] name = "anki_delete_decks" -> Binding("deleteDecks", DeleteDecksParams)
      [] name = "anki_get_card_intervals" -> Binding("getIntervals", GetIntervalsParams)
      [] name = "anki_api_reflect" -> Binding("apiReflect", ApiReflectParams)
      [] name = "anki_save_deck_config" -> Binding("saveDeckConfig", SaveDeckConfigParams)
      [] name = "anki_store_media_file" -> Binding("storeMediaFile", StoreMediaFileParams)
      [] name = "anki_export_package" -> Binding("exportPackage", ExportPackageParams)

\* a variant that forwards a name it does not know as an action of its own
find_tool_forwards_name(name) ==
    IF name \in Tools
    THEN <<"Tool", ToolBinding(name)>>
    ELSE <<"Tool", Binding(name, NoParams)>>

\* the lookup of a called name among the tools registered with mcp
find_tool(name) ==
    IF name \in Tools THEN <<"Tool", ToolBinding(name)>> ELSE <<"NoneType">>

(***************************************************************************)
(* Outcomes of a call: a returned value or a raised exception              *)
(***************************************************************************)
Pending == <<"pending">>
Return(v) == <<"return", v>>
Raise(kind, payload) == <<"raise", kind, payload>>

Returned(o) == o[1] = "return"
Raised(o, kind) == o[1] = "raise" /\ o[2] = kind

\* AnkiConnectError(message) of utils.py: one class for every failure of the
\* client, told apart only by its message
AnkiConnectError(message) == Raise("AnkiConnectError", message)

\* an f-string: a fixed prefix followed by the text of a value
FString(prefix, arg) == <<"fstr", prefix, arg>>

(***************************************************************************)
(* utils.py                                                                *)
(***************************************************************************)
\* a variant that hands back the whole envelope instead of its result
transform_returns_envelope(response) ==
    IF response[1] # "dict"
    THEN Raise("AttributeError", PyStr("object has no attribute 'get'"))
    ELSE IF ~IsNone(DictGet(response[2], "error"))
         THEN AnkiConnectError(DictGet(response[2], "error"))
         ELSE Return(response)

\* a variant that raises with a message of its own instead of the error text
transform_rewords_error(response) ==
    IF response[1] # "dict"
    THEN Raise("AttributeError", PyStr("object has no attribute 'get'"))
    ELSE IF ~IsNone(DictGet(response[2], "error"))
         THEN AnkiConnectError(FString("Anki-Connect error: ", DictGet(response[2], "error")))
         ELSE Return(DictGet(response[2], "result"))

\* a variant that tests the truth of the error instead of comparing with None
transform_truthy_error(response) ==
    IF response[1] # "dict"
    THEN Raise("AttributeError", PyStr("object has no attribute 'get'"))
    ELSE IF Truthy(DictGet(response[2], "error"))
         THEN AnkiConnectError(DictGet(response[2], "error"))
         ELSE Return(DictGet(response[2], "result"))

\* a variant that returns a result whenever there is one
transform_result_first(response) ==
    IF response[1] # "dict"
    THEN Raise("AttributeError", PyStr("object has no attribute 'get'"))
    ELSE IF ~IsNone(DictGet(response[2], "result"))
         THEN Return(DictGet(response[2], "result"))
         ELSE IF ~IsNone(DictGet(response[2], "error"))
              THEN AnkiConnectError(DictGet(response[2], "error"))
              ELSE Return(PyNone)

\* response.get raises AttributeError on a value that is not a dict
transform_anki_connect_response(response) ==
    IF response[1] # "dict"
    THEN Raise("AttributeError", PyStr("object has no attribute 'get'"))
    ELSE IF ~IsNone(DictGet(response[2], "error"))
         THEN AnkiConnectError(DictGet(response[2], "error"))
         ELSE Return(DictGet(response[2], "result"))

(***************************************************************************)
(* config.py: the values when no environment variable overrides them,      *)
(* except for the optional key                                             *)
(***************************************************************************)
ApiKeys == {PyNone, PyStr("secret")}

AnkiConnectConfig(api_key) ==
    [url |-> PyStr("http://localhost:8765"),
     api_key |-> api_key,
     timeout |-> PyInt(30),
     version |-> PyInt(6)]

(***************************************************************************)
(* anki_connect_client.py                                                  *)
(***************************************************************************)
NoInstance == <<"NoneType">>
AsyncClient(id) == <<"AsyncClient", id>>

\* a variant of __init__ that takes the built-in address when no url is given
AsyncAnkiConnectClient_builtin_url(cfg, url, api_key, version, timeout) ==
    [url |-> PyOr(url, PyStr("http://localhost:8765")),
     api_key |-> PyOr(api_key, cfg.api_key),
     version |-> PyOr(version, cfg.version),
     timeout |-> PyOr(timeout, cfg.timeout),
     client |-> PyNone]

\* AsyncAnkiConnectClient.__init__
AsyncAnkiConnectClient(cfg, url, api_key, version, timeout) ==
    [url |-> PyOr(url, cfg.url),
     api_key |-> PyOr(api_key, cfg.api_key),
     version |-> PyOr(version, cfg.version),
     timeout |-> PyOr(timeout, cfg.timeout),
     client |-> PyNone]

\* a variant that makes a new httpx client on every call
ensure_client_always_new(self, created) ==
    [self EXCEPT !.client = AsyncClient(created + 1)]

\* AsyncAnkiConnectClient._ensure_client; created is the number of
\* httpx.AsyncClient objects made so far, the new one is the next
ensure_client(self, created) ==
    IF IsNone(self.client)
    THEN [self EXCEPT !.client = AsyncClient(created + 1)]
    ELSE self

\* a variant of close that keeps the closed httpx client in self.client
close_release_keeps_client(self) == self

\* self.client = None  at the end of AsyncAnkiConnectClient.close
close_release(self) == [self EXCEPT !.client = PyNone]

\* AsyncAnkiConnectClient.__aenter__: a new httpx client is assigned to
\* self.client, whatever it held
aenter(self, created) == [self EXCEPT !.client = AsyncClient(created + 1)]

\* the httpx clients AsyncAnkiConnectClient.__aexit__ and close call aclose
\* on: the one held, if any
aclosed_by(self) == IF IsNone(self.client) THEN {} ELSE {self.client[2]}

\* AsyncAnkiConnectClient.__aexit__:  self.client = None  after the aclose
aexit(self) == [self EXCEPT !.client = PyNone]

\* anki_connect_client.get_client: a client object is constructed on every
\* call and its httpx client is made; made is the number of objects earlier
\* calls have returned.  Object 1 is the one of server.get_anki_client.
get_client(cfg, created, made) ==
    <<"AsyncAnkiConnectClient",
      ensure_client(AsyncAnkiConnectClient(cfg, PyNone, PyNone, PyNone, PyNone), created),
      made + 2>>

\* httpx refuses to send on a client whose aclose has been called
ClientClosed ==
    Raise("RuntimeError", PyStr("Cannot send a request, as the client has been closed."))

\* a variant of check_connection that catches nothing
check_connection_propagates(result) ==
    IF Returned(result) THEN Return(PyTrue) ELSE result

\* AsyncAnkiConnectClient.check_connection, given how its request("version")
\* ended:  return True  after it, False under  except Exception
check_connection(result) ==
    IF Returned(result) THEN Return(PyTrue) ELSE Return(PyFalse)

\* request_data of AsyncAnkiConnectClient.request; model is None or a BaseModel
request_data(self, action, model) ==
    <<<<"action", PyStr(action)>>, <<"version", self.version>>>>
    \o (IF Truthy(model) THEN <<<<"params", model_dump(model)>>>> ELSE <<>>)
    \o (IF Truthy(self.api_key) THEN <<<<"key", self.api_key>>>> ELSE <<>>)

\* the POST issued by request: the URL and the JSON document of the body
NoPost == <<"none">>
Post(self, action, model) ==
    <<"POST", self.url, JsonDumps(PyDict(request_data(self, action, model)))>>

\* what the HTTP layer can answer: an exception raised by client.post (kind is
\* its httpx class), or a response
RaisedByPost(class) == [kind |-> class, status |-> 0, json |-> FALSE, doc |-> JNull]
\* the endpoint is unreachable or the connection fails
NetworkFailure == [kind |-> "RequestError", status |-> 0, json |-> FALSE, doc |-> JNull]
\* the per-call timeout given to httpx.AsyncClient ran out
TimeoutFailure == RaisedByPost("ReadTimeout")

\* the classes caught by  except httpx.RequestError  (TimeoutException and
\* its subclasses derive from TransportError, which derives from RequestError)
IsRequestError(class) ==
    class \in {"RequestError", "ConnectError", "ConnectTimeout", "ReadTimeout"}
HttpResponse(status, json, doc) ==
    [kind |-> "Response", status |-> status, json |-> json, doc |-> doc]

\* response.raise_for_status() raises unless the status is 2xx
is_success(status) == 200 <= status /\ status <= 299

\* a variant without the handler of httpx.HTTPStatusError
request_result_status_unhandled(reply) ==
    IF IsRequestError(reply.kind)
    THEN AnkiConnectError(FString("Failed to connect to Anki-Connect: ", PyStr(reply.kind)))
    ELSE IF ~is_success(reply.status)
    THEN Raise("HTTPStatusError", PyInt(reply.status))
    ELSE IF ~reply.json
    THEN AnkiConnectError(PyStr("Invalid response from Anki-Connect"))
    ELSE transform_anki_connect_response(JsonLoads(reply.doc))

\* a variant that does not call response.raise_for_status()
request_result_status_unchecked(reply) ==
    IF IsRequestError(reply.kind)
    THEN AnkiConnectError(FString("Failed to connect to Anki-Connect: ", PyStr(reply.kind)))
    ELSE IF ~reply.json
    THEN AnkiConnectError(PyStr("Invalid response from Anki-Connect"))
    ELSE transform_anki_connect_response(JsonLoads(reply.doc))

\* a variant whose handler of httpx.RequestError catches connection errors only
request_result_timeout_unhandled(reply) ==
    IF reply.kind \in {"RequestError", "ConnectError"}
    THEN AnkiConnectError(FString("Failed to connect to Anki-Connect: ", PyStr(reply.kind)))
    ELSE IF reply.kind # "Response"
    THEN Raise(reply.kind, PyStr("timed out"))
    ELSE IF ~is_success(reply.status)
    THEN AnkiConnectError(FString("Anki-Connect returned HTTP error: ", PyInt(reply.status)))
    ELSE IF ~reply.json
    THEN AnkiConnectError(PyStr("Invalid response from Anki-Connect"))
    ELSE transform_anki_connect_response(JsonLoads(reply.doc))

\* the value or exception of request once client.post has answered: the try
\* block and its handlers
request_result(reply) ==
    IF IsRequestError(reply.kind)
    THEN AnkiConnectError(FString("Failed to connect to Anki-Connect: ", PyStr(reply.kind)))
    ELSE IF ~is_success(reply.status)
    THEN AnkiConnectError(FString("Anki-Connect returned HTTP error: ", PyInt(reply.status)))
    ELSE IF ~reply.json
    THEN AnkiConnectError(PyStr("Invalid response from Anki-Connect"))
    ELSE transform_anki_connect_response(JsonLoads(reply.doc))

\* a variant that posts again after a failure of the transport
request_after_post_retry(self, reply) ==
    [result |-> request_result(reply),
     self |-> self,
     again |-> reply.kind # "Response"]

\* a variant that posts again until the call succeeds
request_after_post_retry_until_success(self, reply) ==
    [result |-> request_result(reply),
     self |-> self,
     again |-> ~Returned(request_result(reply))]

\* a variant whose handlers drop the connection after a failure
request_after_post_drops_client(self, reply) ==
    [result |-> request_result(reply),
     self |-> IF Returned(request_result(reply))
              THEN self
              ELSE [self EXCEPT !.client = PyNone],
     again |-> FALSE]

\* request from the answer of client.post to its end: its result, the client
\* object afterwards (no handler touches self), and whether it posts again
\* (there is no loop around the POST)
request_after_post(self, reply) ==
    [result |-> request_result(reply),
     self |-> self,
     again |-> FALSE]

(***************************************************************************)
(* server.py: the shared client and the tool handlers                      *)
(***************************************************************************)
\* a variant that makes a new client object for every call
get_anki_client_always_new(instance, cfg, created) ==
    <<"AsyncAnkiConnectClient",
      ensure_client(AsyncAnkiConnectClient(cfg, PyNone, PyNone, PyNone, PyNone), created),
      IF instance[1] = "NoneType" THEN 1 ELSE instance[3] + 1>>

\* get_anki_client: the instance after the call (created when None).  The
\* third component tells the objects apart: the first one made is 1.
get_anki_client(instance, cfg, created) ==
    IF instance[1] = "NoneType"
    THEN <<"AsyncAnkiConnectClient",
           ensure_client(AsyncAnkiConnectClient(cfg, PyNone, PyNone, PyNone, PyNone), created),
           1>>
    ELSE instance

(***************************************************************************)
(* Inputs of the model                                                     *)
(***************************************************************************)
Cards12 == PyList(<<PyInt(1), PyInt(2)>>)
DecksX == PyList(<<PyStr("X")>>)
ConfigGroup1 == <<<<"id", PyInt(1)>>, <<"name", PyStr("Default")>>>>

\* the raw parameter objects a caller passes to each tool
RawInputs(name) ==
    CASE name = "anki_get_deck_names" -> {<<>>}
      [] name = "anki_suspend_cards" ->
            {<<>>,
             <<<<"cards", Cards12>>>>,
             <<<<"cards", Cards12>>, <<"verbose", PyTrue>>>>}
      [] name = "anki_delete_decks" ->
            {<<<<"decks", DecksX>>>>,
             <<<<"decks", DecksX>>, <<"cardsToo", PyTrue>>>>,
             <<<<"decks", DecksX>>, <<"cardsToo", PyFalse>>>>,
             <<<<"cardsToo", PyTrue>>>>}
      [] name = "anki_get_card_intervals" ->
            {<<<<"cards", Cards12>>>>,
             <<<<"cards", Cards12>>, <<"complete", PyFalse>>>>,
             <<<<"cards", Cards12>>, <<"complete", PyTrue>>>>}
      [] name = "anki_api_reflect" ->
            {<<>>, <<<<"actions", PyList(<<PyStr("deckNames")>>)>>>>}
      [] name = "anki_save_deck_config" ->
            {<<<<"config", PyDict(ConfigGroup1)>>>>,
             <<<<"config", PyDict(ConfigGroup1 \o <<<<"newToday", PyInt(5)>>>>)>>>>}
      [] name = "anki_store_media_file" ->
            {<<<<"filename", PyStr("a.png")>>, <<"data", PyStr("iVBORw0KGgo=")>>>>}
      [] name = "anki_export_package" ->
            {<<<<"deck", PyStr("X")>>, <<"path", PyStr("/tmp/X.apkg")>>>>}

\* the values of the error field of a response envelope (Absent: no such key)
Absent == <<"absent">>
ErrorTexts == {PyStr(""), PyStr("deck was not found")}

Member(key, v) == IF v = Absent THEN <<>> ELSE <<<<key, JsonDumps(v)>>>>

Envelope(error, result) ==
    JObject(Member("result", result) \o Member("error", error))

DeckList == PyList(<<PyStr("Default"), PyStr("Spanish")>>)

\* the answers of the HTTP layer
HttpReplies ==
    {NetworkFailure,
     TimeoutFailure,
     HttpResponse(500, TRUE, Envelope(PyNone, PyTrue)),
     HttpResponse(200, FALSE, JNull),
     HttpResponse(200, TRUE, JArray(<<JString("Default")>>)),
     HttpResponse(200, TRUE, JNumber(6))}
    \cup {HttpResponse(200, TRUE, Envelope(e, r)) :
            e \in {Absent, PyNone} \cup ErrorTexts,
            r \in {Absent, PyTrue, DeckList}}

\* Call 1 is the call under observation and draws from every input and
\* every answer; the calls running beside it draw from these smaller sets.
\* names a host may call that no @mcp.tool registers: an Anki-Connect action
\* under its own name, and a name nothing knows
UnknownNames == {"deckNames", "anki_format_disk"}
ExternalNames == Tools \cup UnknownNames

BackgroundInputs(name) ==
    CASE name = "anki_suspend_cards" -> {<<<<"cards", Cards12>>>>}
      [] name = "anki_delete_decks" -> {<<<<"decks", DecksX>>>>}
      [] OTHER -> {}

BackgroundReplies ==
    {NetworkFailure,
     HttpResponse(200, TRUE, Envelope(PyNone, PyTrue)),
     HttpResponse(200, TRUE, Envelope(PyStr("deck was not found"), Absent))}

InputsOf(p, name) ==
    IF name \in UnknownNames
    THEN (IF p = 1 THEN {<<>>, <<<<"cards", Cards12>>>>} ELSE {})
    ELSE IF p = 1 THEN RawInputs(name) ELSE BackgroundInputs(name)

(***************************************************************************)
(* run_server.py and the logging it configures                             *)
(***************************************************************************)
LogLevels == {"debug", "info", "warning", "error", "critical"}

\* str.upper on the names argparse lets through
Upper(level) ==
    CASE level = "debug" -> "DEBUG"
      [] level = "info" -> "INFO"
      [] level = "warning" -> "WARNING"
      [] level = "error" -> "ERROR"
      [] level = "critical" -> "CRITICAL"

\* the names logging.setLevel knows
LevelNames == {"DEBUG", "INFO", "WARNING", "ERROR", "CRITICAL"}

\* the root logger of a fresh interpreter
PythonRootLogger == [handlers |-> 0, level |-> "WARNING"]

\* logging.basicConfig(level=...): it does nothing when the root logger has
\* a handler already; otherwise it adds one and sets the level, which
\* raises ValueError for a name setLevel does not know
basicConfig(root, level) ==
    IF root.handlers # 0
    THEN [root |-> root, raised |-> FALSE]
    ELSE IF level \in LevelNames
    THEN [root |-> [handlers |-> 1, level |-> level], raised |-> FALSE]
    ELSE [root |-> [root EXCEPT !.handlers = 1], raised |-> TRUE]

\* the root logger once the package is imported: utils.py calls
\* logging.basicConfig(level=logging.INFO) at module level
ImportedRootLogger == basicConfig(PythonRootLogger, "INFO").root

ProxyVars == {"http_proxy", "HTTP_PROXY", "https_proxy", "HTTPS_PROXY"}

\* clean_proxy of run_server.py on the set of variable names in os.environ
clean_proxy(environ) ==
    LET http == IF "http_proxy" \in environ THEN environ \ {"http_proxy"}
                ELSE IF "HTTP_PROXY" \in environ THEN environ \ {"HTTP_PROXY"}
                ELSE environ
    IN  IF "https_proxy" \in http THEN http \ {"https_proxy"}
        ELSE IF "HTTPS_PROXY" \in http THEN http \ {"HTTPS_PROXY"}
        ELSE http

\* the command line as parse_args returns it; the defaults are the values of
\* the configuration
DefaultUrl == PyStr("http://localhost:8765")
Urls == {DefaultUrl, PyStr("http://remote:8765")}
DefaultArgs == [log_level |-> "info", anki_connect_url |-> DefaultUrl]
Args == [log_level : LogLevels, anki_connect_url : Urls]

(***************************************************************************)
(* State                                                                   *)
(***************************************************************************)
VARIABLES
    main_pc,                \* run_server.main: "imported", "serving", "exited"
    argv,                   \* the parsed command line
    environ,                \* the proxy variables set in os.environ
    root_logger,            \* the root logger: number of handlers, level
    log_level,              \* config.mcp_server.log_level
    config,                 \* config.anki_connect
    anki_client_instance,   \* server._anki_client_instance
    http_clients,           \* how many httpx.AsyncClient objects were made
    closed,                 \* the httpx clients whose aclose has been called
    pc,                     \* per call: "idle", "awaiting" (the POST),
                            \*           "closing" (the aclose), "done"
    op,                     \* per call: "call_tool", "check_connection", "close"
    tool,                   \* per call: the external name
    raw,                    \* per call: the raw parameter object
    used,                   \* per call: the client object and httpx client it sent on
    posted,                 \* per call: the POST it issued, or NoPost
    reply,                  \* per call: the answer of the HTTP layer
    outcome,                \* per call: what the operation returned or raised
    posts,                  \* per call: how often it has called client.post,
                            \*           counted up to MaxPosts
    got,                    \* the objects get_client has returned, in order
    own,                    \* a client object constructed by the caller itself
    own_args,               \* the arguments its constructor was given
    own_made,               \* the httpx clients it has made
    own_post                \* its last request: the POST, the timeout of the
                            \* httpx client it was sent on, the result

startup_vars == <<main_pc, argv, environ, root_logger, log_level>>
library_vars == <<got, own, own_args, own_made, own_post>>

vars ==
    <<startup_vars, library_vars, config, anki_client_instance, http_clients, closed, pc, op,
      tool, raw, used, posted, reply, outcome, posts>>

NoReply == [kind |-> "none", status |-> 0, json |-> FALSE, doc |-> JNull]
NotUsed == <<0, 0>>

\* the server as it serves after a start without arguments and without
\* proxy variables
Served ==
    /\ main_pc = "serving"
    /\ argv = DefaultArgs
    /\ environ = {}
    /\ root_logger = ImportedRootLogger
    /\ log_level = "info"

\* the arguments of AsyncAnkiConnectClient(...): None when not given
NoArgs == [url |-> PyNone, api_key |-> PyNone, version |-> PyNone, timeout |-> PyNone]
NoOwnPost == [post |-> NoPost, timeout |-> PyNone, result |-> Pending]

\* no caller has used the client module directly
LibraryInit ==
    /\ got = <<>>
    /\ own = NoInstance
    /\ own_args = NoArgs
    /\ own_made = {}
    /\ own_post = NoOwnPost

ServerInit ==
    /\ anki_client_instance = NoInstance
    /\ http_clients = 0
    /\ closed = {}
    /\ pc = [p \in Procs |-> "idle"]
    /\ op = [p \in Procs |-> ""]
    /\ tool = [p \in Procs |-> ""]
    /\ raw = [p \in Procs |-> <<>>]
    /\ used = [p \in Procs |-> NotUsed]
    /\ posted = [p \in Procs |-> NoPost]
    /\ reply = [p \in Procs |-> NoReply]
    /\ outcome = [p \in Procs |-> Pending]
    /\ posts = [p \in Procs |-> 0]

Init ==
    /\ Served
    /\ config \in {AnkiConnectConfig(k) : k \in ApiKeys}
    /\ ServerInit
    /\ LibraryInit

\* the answers drawn for the POST of call p: every answer for call 1 when it
\* checks the connection or asks for the deck names, the smaller set otherwise
RepliesOf(p) ==
    IF p = 1 /\ (op[p] = "check_connection"
                 \/ tool[p] = "anki_get_deck_names")
    THEN HttpReplies
    ELSE BackgroundReplies

\* what the caller of the operation gets from the outcome of its request
Surface(operation, result) ==
    IF operation = "check_connection" THEN check_connection(result) ELSE result

\* a variant of request that keeps its request data on the shared object, so
\* that a new request replaces the data of those in flight
SendRequest_shared_request_data(p, operation, instance, action, model) ==
    LET self == ensure_client(instance[2], http_clients)
    IN  /\ self.client[2] <= MaxClients
        /\ anki_client_instance' = <<"AsyncAnkiConnectClient", self, instance[3]>>
        /\ http_clients' = IF self.client[2] > http_clients
                           THEN self.client[2] ELSE http_clients
        /\ used' = [used EXCEPT ![p] = <<instance[3], self.client[2]>>]
        /\ posts' = [posts EXCEPT ![p] = 1]
        /\ IF self.client[2] \in closed
           THEN /\ outcome' = [outcome EXCEPT ![p] = Surface(operation, ClientClosed)]
                /\ pc' = [pc EXCEPT ![p] = "done"]
                /\ UNCHANGED posted
           ELSE /\ posted' = [q \in Procs |->
                        IF q = p \/ pc[q] = "awaiting"
                        THEN Post(self, action, model)
                        ELSE posted[q]]
                /\ pc' = [pc EXCEPT ![p] = "awaiting"]
                /\ UNCHANGED outcome

\* AsyncAnkiConnectClient.request on the given instance, up to its await of
\* the POST: _ensure_client, the request data, client.post.  On a closed
\* httpx client the post raises at once and no handler of request catches it.
SendRequest(p, operation, instance, action, model) ==
    LET self == ensure_client(instance[2], http_clients)
    IN  /\ self.client[2] <= MaxClients
        /\ anki_client_instance' = <<"AsyncAnkiConnectClient", self, instance[3]>>
        /\ http_clients' = IF self.client[2] > http_clients
                           THEN self.client[2] ELSE http_clients
        /\ used' = [used EXCEPT ![p] = <<instance[3], self.client[2]>>]
        /\ posts' = [posts EXCEPT ![p] = 1]
        /\ IF self.client[2] \in closed
           THEN /\ outcome' = [outcome EXCEPT ![p] = Surface(operation, ClientClosed)]
                /\ pc' = [pc EXCEPT ![p] = "done"]
                /\ UNCHANGED posted
           ELSE /\ posted' = [posted EXCEPT ![p] = Post(self, action, model)]
                /\ pc' = [pc EXCEPT ![p] = "awaiting"]
                /\ UNCHANGED outcome

\* The host calls a tool.  The name is looked up, the arguments are validated
\* against the declared shape, and then the handler body runs; the body is
\* _execute_anki_request: get_anki_client, then request.
Dispatch(p, name, args) ==
    LET found == find_tool(name)
        binding == found[2]
        errors == FieldErrors(binding.shape, args)
    IN  /\ pc[p] = "idle"
        /\ op' = [op EXCEPT ![p] = "call_tool"]
        /\ tool' = [tool EXCEPT ![p] = name]
        /\ raw' = [raw EXCEPT ![p] = args]
        /\ IF found[1] = "NoneType"
           THEN /\ outcome' = [outcome EXCEPT ![p] =
                        Raise("NotFoundError", FString("Unknown tool: ", PyStr(name)))]
                /\ pc' = [pc EXCEPT ![p] = "done"]
                /\ UNCHANGED <<anki_client_instance, http_clients, used, posted, posts>>
           ELSE IF errors # {}
           THEN /\ outcome' = [outcome EXCEPT ![p] = Raise("ValidationError", errors)]
                /\ pc' = [pc EXCEPT ![p] = "done"]
                /\ UNCHANGED <<anki_client_instance, http_clients, used, posted, posts>>
           ELSE SendRequest(p, "call_tool",
                            get_anki_client(anki_client_instance, config, http_clients),
                            binding.action, ModelValidate(binding.shape, args))
        /\ UNCHANGED <<startup_vars, library_vars, config, closed, reply>>

\* check_connection is called on the shared client object: request("version")
\* without a model, up to its await of the POST.
CheckConnection(p) ==
    /\ pc[p] = "idle"
    /\ anki_client_instance[1] # "NoneType"
    /\ op' = [op EXCEPT ![p] = "check_connection"]
    /\ SendRequest(p, "check_connection", anki_client_instance, "version", PyNone)
    /\ UNCHANGED <<startup_vars, library_vars, config, closed, tool, raw, reply>>

\* The HTTP layer answers the POST of call p and request runs to its end;
\* _execute_anki_request and the tool handler pass the outcome on unchanged,
\* check_connection turns it into True or False.
HttpRespond(p, r) ==
    LET after == request_after_post(anki_client_instance[2], r)
    IN  /\ pc[p] = "awaiting"
        /\ reply' = [reply EXCEPT ![p] = r]
        /\ anki_client_instance' =
                <<"AsyncAnkiConnectClient", after.self, anki_client_instance[3]>>
        /\ IF after.again
           THEN /\ posts' = [posts EXCEPT ![p] = IF @ < MaxPosts THEN @ + 1 ELSE @]
                /\ UNCHANGED <<outcome, pc>>
           ELSE /\ outcome' = [outcome EXCEPT ![p] = Surface(op[p], after.result)]
                /\ pc' = [pc EXCEPT ![p] = "done"]
                /\ UNCHANGED posts
        /\ UNCHANGED <<startup_vars, library_vars, config, http_clients, closed, op, tool, raw, used, posted>>

\* close is called on the shared client object: with an httpx client in
\* self.client it calls aclose, which marks that client closed at once and
\* then awaits the closing of its connections; with none it returns.
CloseBegin(p) ==
    LET self == anki_client_instance[2]
    IN  /\ pc[p] = "idle"
        /\ anki_client_instance[1] # "NoneType"
        /\ op' = [op EXCEPT ![p] = "close"]
        /\ IF ~IsNone(self.client)
           THEN /\ http_clients < MaxClients
                /\ closed' = closed \cup {self.client[2]}
                /\ pc' = [pc EXCEPT ![p] = "closing"]
                /\ UNCHANGED outcome
           ELSE /\ outcome' = [outcome EXCEPT ![p] = Return(PyNone)]
                /\ pc' = [pc EXCEPT ![p] = "done"]
                /\ UNCHANGED closed
        /\ UNCHANGED <<startup_vars, library_vars, config, anki_client_instance, http_clients, tool, raw, used,
                       posted, reply, posts>>

\* aclose has returned: close sets self.client to None and returns.
CloseEnd(p) ==
    /\ pc[p] = "closing"
    /\ anki_client_instance' =
            <<"AsyncAnkiConnectClient", close_release(anki_client_instance[2]),
              anki_client_instance[3]>>
    /\ outcome' = [outcome EXCEPT ![p] = Return(PyNone)]
    /\ pc' = [pc EXCEPT ![p] = "done"]
    /\ UNCHANGED <<startup_vars, library_vars, config, http_clients, closed, op, tool, raw, used, posted,
                   reply, posts>>

\* The caller has taken the outcome; the slot is free for the next call.
Finish(p) ==
    /\ pc[p] = "done"
    /\ pc' = [pc EXCEPT ![p] = "idle"]
    /\ op' = [op EXCEPT ![p] = ""]
    /\ tool' = [tool EXCEPT ![p] = ""]
    /\ raw' = [raw EXCEPT ![p] = <<>>]
    /\ used' = [used EXCEPT ![p] = NotUsed]
    /\ posted' = [posted EXCEPT ![p] = NoPost]
    /\ reply' = [reply EXCEPT ![p] = NoReply]
    /\ outcome' = [outcome EXCEPT ![p] = Pending]
    /\ posts' = [posts EXCEPT ![p] = 0]
    /\ UNCHANGED <<startup_vars, library_vars, config, anki_client_instance, http_clients, closed>>

\* Call 1 is the one that checks the connection; close is called from the
\* call beside it.
Checkers == {1}
Closers == {2}

Next ==
    \/ \E p \in Procs, name \in ExternalNames :
          \E args \in InputsOf(p, name) : Dispatch(p, name, args)
    \/ \E p \in Checkers : CheckConnection(p)
    \/ \E p \in Procs : \E r \in RepliesOf(p) : HttpRespond(p, r)
    \/ \E p \in Closers : CloseBegin(p)
    \/ \E p \in Procs : CloseEnd(p)
    \/ \E p \in Procs : Finish(p)

Spec == Init /\ [][Next]_vars

\* The start of the program: main stores the command line in the
\* configuration, configures logging, cleans the proxy variables and calls
\* run_server, which configures logging again and runs the mcp server.
Main ==
    LET first == basicConfig(root_logger, Upper(argv.log_level))
        second == basicConfig(first.root, argv.log_level)
    IN  /\ main_pc = "imported"
        /\ log_level' = argv.log_level
        /\ config' = [config EXCEPT !.url = argv.anki_connect_url]
        /\ root_logger' = second.root
        /\ environ' = clean_proxy(environ)
        /\ main_pc' = IF first.raised \/ second.raised THEN "exited" ELSE "serving"
        /\ UNCHANGED <<argv, library_vars, anki_client_instance, http_clients, closed, pc, op,
                       tool, raw, used, posted, reply, outcome, posts>>

\* config.anki_connect.url is assigned again once the shared client exists
ConfigChange(url) ==
    /\ main_pc = "serving"
    /\ anki_client_instance[1] # "NoneType"
    /\ config.url # url
    /\ config' = [config EXCEPT !.url = url]
    /\ UNCHANGED <<startup_vars, library_vars, anki_client_instance, http_clients, closed, pc, op,
                   tool, raw, used, posted, reply, outcome, posts>>

\* The program from its start: the package is imported, main runs, and the
\* server then serves the calls of the deck names tool, one at a time.
\* code of the process calls anki_connect_client.get_client()
GetClient ==
    /\ http_clients < MaxClients
    /\ got' = Append(got, get_client(config, http_clients, Len(got)))
    /\ http_clients' = http_clients + 1
    /\ UNCHANGED <<startup_vars, own, own_args, own_made, own_post, config,
                   anki_client_instance, closed, pc, op, tool, raw, used,
                   posted, reply, outcome, posts>>

\* the arguments a caller gives the constructor: each one not given, given
\* with a value Python takes for false, or given with another value
ConstructorArgs ==
    [url : {PyNone, PyStr(""), PyStr("http://remote:8765")},
     api_key : {PyNone, PyStr(""), PyStr("other")},
     version : {PyNone, PyInt(0), PyInt(5)},
     timeout : {PyNone, PyInt(0), PyInt(10)}]

\* the actions a caller of the client asks for
OwnActions == {"version", "deckNames"}

\* the httpx client of the object, if one was made by the step from created
MadeBy(self, created) ==
    IF ~IsNone(self.client) /\ self.client[2] > created THEN {self.client[2]} ELSE {}

\* client = AsyncAnkiConnectClient(url, api_key, version, timeout)
Construct(a) ==
    /\ own = NoInstance
    /\ own' = <<"AsyncAnkiConnectClient",
                AsyncAnkiConnectClient(config, a.url, a.api_key, a.version, a.timeout),
                Len(got) + 2>>
    /\ own_args' = a
    /\ UNCHANGED <<startup_vars, got, own_made, own_post, config,
                   anki_client_instance, http_clients, closed, pc, op, tool,
                   raw, used, posted, reply, outcome, posts>>

\* await client.__aenter__()
AEnter ==
    /\ own # NoInstance
    /\ http_clients < MaxClients
    /\ own' = [own EXCEPT ![2] = aenter(own[2], http_clients)]
    /\ http_clients' = http_clients + 1
    /\ own_made' = own_made \cup {http_clients + 1}
    /\ UNCHANGED <<startup_vars, got, own_args, own_post, config,
                   anki_client_instance, closed, pc, op, tool, raw, used,
                   posted, reply, outcome, posts>>

\* await client.__aexit__(...)
AExit ==
    /\ own # NoInstance
    /\ closed' = closed \cup aclosed_by(own[2])
    /\ own' = [own EXCEPT ![2] = aexit(own[2])]
    /\ UNCHANGED <<startup_vars, got, own_args, own_made, own_post, config,
                   anki_client_instance, http_clients, pc, op, tool, raw,
                   used, posted, reply, outcome, posts>>

\* await client._ensure_client()
EnsureClient ==
    LET self == ensure_client(own[2], http_clients)
    IN  /\ own # NoInstance
        /\ self.client[2] <= MaxClients
        /\ own' = [own EXCEPT ![2] = self]
        /\ http_clients' = http_clients + Cardinality(MadeBy(self, http_clients))
        /\ own_made' = own_made \cup MadeBy(self, http_clients)
        /\ UNCHANGED <<startup_vars, got, own_args, own_post, config,
                       anki_client_instance, closed, pc, op, tool, raw, used,
                       posted, reply, outcome, posts>>

\* await client.request(action), answered by r
OwnRequest(action, r) ==
    LET self == ensure_client(own[2], http_clients)
        after == request_after_post(self, r)
    IN  /\ own # NoInstance
        /\ self.client[2] <= MaxClients
        /\ own' = [own EXCEPT ![2] = after.self]
        /\ http_clients' = http_clients + Cardinality(MadeBy(self, http_clients))
        /\ own_made' = own_made \cup MadeBy(self, http_clients)
        /\ own_post' = [post |-> Post(self, action, PyNone),
                        timeout |-> self.timeout,
                        result |-> after.result]
        /\ UNCHANGED <<startup_vars, got, own_args, config,
                       anki_client_instance, closed, pc, op, tool, raw, used,
                       posted, reply, outcome, posts>>

\* await client.close()
OwnClose ==
    /\ own # NoInstance
    /\ closed' = closed \cup aclosed_by(own[2])
    /\ own' = [own EXCEPT ![2] = close_release(own[2])]
    /\ UNCHANGED <<startup_vars, got, own_args, own_made, own_post, config,
                   anki_client_instance, http_clients, pc, op, tool, raw,
                   used, posted, reply, outcome, posts>>

\* one AsyncAnkiConnectClient used by its caller, one operation after another
NextClient ==
    \/ \E a \in ConstructorArgs : Construct(a)
    \/ AEnter
    \/ AExit
    \/ EnsureClient
    \/ \E action \in OwnActions : \E r \in BackgroundReplies : OwnRequest(action, r)
    \/ OwnClose

SpecClient == Init /\ [][NextClient]_vars

InitMain ==
    /\ main_pc = "imported"
    /\ argv \in Args
    /\ environ \in SUBSET ProxyVars
    /\ root_logger = ImportedRootLogger
    /\ log_level = "info"
    /\ config \in {AnkiConnectConfig(k) : k \in ApiKeys}
    /\ ServerInit
    /\ LibraryInit

NextMain ==
    \/ Main
    \/ main_pc = "serving" /\ GetClient
    \/ \E url \in Urls : ConfigChange(url)
    \/ main_pc = "serving" /\ Dispatch(1, "anki_get_deck_names", <<>>)
    \/ \E r \in BackgroundReplies : HttpRespond(1, r)
    \/ Finish(1)

SpecMain == InitMain /\ [][NextMain]_vars

\* The HTTP layer answers every POST in the end: with a response, a network
\* failure or the timeout given to httpx.AsyncClient.
SpecLive ==
    /\ Init
    /\ [][Next]_vars
    /\ \A p \in Procs : WF_vars(\E r \in RepliesOf(p) : HttpRespond(p, r))

\* The same operations issued one after another: one starts only when no
\* other is under way.
OthersIdle(p) == \A q \in Procs \ {p} : pc[q] = "idle"

NextSeq ==
    \/ \E p \in Procs, name \in ExternalNames :
          \E args \in InputsOf(p, name) : OthersIdle(p) /\ Dispatch(p, name, args)
    \/ \E p \in Checkers : OthersIdle(p) /\ CheckConnection(p)
    \/ \E p \in Procs : \E r \in RepliesOf(p) : OthersIdle(p) /\ HttpRespond(p, r)
    \/ \E p \in Closers : OthersIdle(p) /\ CloseBegin(p)
    \/ \E p \in Procs : OthersIdle(p) /\ CloseEnd(p)
    \/ \E p \in Procs : OthersIdle(p) /\ Finish(p)

SpecSeq == Init /\ [][NextSeq]_vars

(***************************************************************************)
(* Reading a reply as the endpoint wrote it                                *)
(***************************************************************************)
JAbsent == <<"absent">>

JKeys(doc) == {doc[2][i][1] : i \in 1..Len(doc[2])}

\* the member of a JSON object under key, JAbsent when there is none
JGet(doc, key) ==
    IF key \in JKeys(doc)
    THEN LET i == CHOOSE j \in 1..Len(doc[2]) : doc[2][j][1] = key IN doc[2][i][2]
    ELSE JAbsent

\* the reply is a success status carrying a JSON object
IsEnvelope(r) ==
    r.kind = "Response" /\ r.status = 200 /\ r.json /\ r.doc[1] = "object"

ErrorOf(r) == JGet(r.doc, "error")
ResultOf(r) == JGet(r.doc, "result")

Done(p) == pc[p] = "done" /\ op[p] = "call_tool" /\ posted[p] # NoPost

(***************************************************************************)
(* C1: a dispatch with well-shaped parameters whose response envelope has  *)
(* a null error returns exactly the envelope's result: the returned value, *)
(* written back as JSON, is the result member as the endpoint sent it.     *)
(***************************************************************************)
C1_ResultPassesThrough ==
    \A p \in Procs :
        (Done(p) /\ IsEnvelope(reply[p]) /\ ErrorOf(reply[p]) \in {JNull, JAbsent})
        => /\ Returned(outcome[p])
           /\ JsonDumps(outcome[p][2]) =
                (IF ResultOf(reply[p]) = JAbsent THEN JNull ELSE ResultOf(reply[p]))

C1_Witness ==
    /\ Done(1)
    /\ tool[1] = "anki_get_deck_names"
    /\ reply[1] = HttpResponse(200, TRUE, Envelope(PyNone, DeckList))
    /\ outcome[1] = Return(DeckList)

(***************************************************************************)
(* C2: when the response envelope carries a non-null error string, the     *)
(* dispatch raises AnkiConnectError carrying exactly that string and       *)
(* returns no value.                                                       *)
(***************************************************************************)
C2_ErrorStringRaised ==
    \A p \in Procs :
        (Done(p) /\ IsEnvelope(reply[p]) /\ ErrorOf(reply[p])[1] = "string")
        => outcome[p] = AnkiConnectError(PyStr(ErrorOf(reply[p])[2]))

C2_Witness ==
    /\ Done(1)
    /\ tool[1] = "anki_suspend_cards"
    /\ IsEnvelope(reply[1])
    /\ ErrorOf(reply[1]) = JString("deck was not found")
    /\ outcome[1] = AnkiConnectError(PyStr("deck was not found"))

(***************************************************************************)
(* C3: the failure kinds seen by a caller of dispatch.                     *)
(***************************************************************************)
\* the endpoint reported a failure in the envelope
RemoteFailure(r) == IsEnvelope(r) /\ ErrorOf(r) \notin {JNull, JAbsent}

\* the transport failed: unreachable, non-success status, or a body that is
\* not JSON text
TransportFailure(r) ==
    \/ r.kind \in {"RequestError", "ReadTimeout"}
    \/ r.kind = "Response" /\ r.status # 200
    \/ r.kind = "Response" /\ r.status = 200 /\ ~r.json

FailureKind(o) == IF o[1] = "raise" THEN o[2] ELSE "none"

\* C3 as claimed: a failure reported by the endpoint and a failure of the
\* transport never surface as the same kind of failure.
C3_KindsDiffer ==
    \A p, q \in Procs :
        (Done(p) /\ RemoteFailure(reply[p]) /\ Done(q) /\ TransportFailure(reply[q]))
        => FailureKind(outcome[p]) # FailureKind(outcome[q])

\* C3 as amended: a failure reported by the endpoint in the envelope and a
\* failure of the transport (unreachable, non-success status, body that is
\* not JSON text) both reach the caller of dispatch as AnkiConnectError, the
\* kind request raised, and so as the same kind.
C3_OneFailureKind ==
    \A p \in Procs :
        (Done(p) /\ (RemoteFailure(reply[p]) \/ TransportFailure(reply[p])))
        => Raised(outcome[p], "AnkiConnectError")

C3_Witness ==
    /\ Done(1) /\ reply[1].kind = "Response" /\ reply[1].status = 500
    /\ Done(2) /\ RemoteFailure(reply[2])
    /\ FailureKind(outcome[1]) = "AnkiConnectError"
    /\ FailureKind(outcome[2]) = "AnkiConnectError"

(***************************************************************************)
(* C4: a dispatch whose parameter object lacks a required field raises     *)
(* ValidationError naming that field, and issues no POST.                  *)
(***************************************************************************)
MissingRequired(name, args) ==
    LET shape == ToolBinding(name).shape
    IN  {shape[i].name : i \in
            {j \in 1..Len(shape) :
                shape[j].default = Required /\ shape[j].name \notin Keys(args)}}

C4_MissingFieldRejected ==
    \A p \in Procs :
        (pc[p] # "idle" /\ tool[p] \in Tools /\ MissingRequired(tool[p], raw[p]) # {})
        => /\ Raised(outcome[p], "ValidationError")
           /\ MissingRequired(tool[p], raw[p]) \subseteq outcome[p][3]
           /\ posted[p] = NoPost

C4_Witness ==
    /\ pc[1] = "done"
    /\ tool[1] = "anki_delete_decks"
    /\ raw[1] = <<<<"decks", DecksX>>>>
    /\ outcome[1] = Raise("ValidationError", {"cardsToo"})
    /\ posted[1] = NoPost
    /\ anki_client_instance = NoInstance

(***************************************************************************)
(* C5: no POST with action "deleteDecks" is issued unless its parameters   *)
(* hold cardsToo = true; a call of anki_delete_decks with cardsToo false   *)
(* or absent raises ValidationError and issues nothing.                    *)
(***************************************************************************)
DeleteDecksPosted(p) ==
    posted[p] # NoPost /\ JGet(posted[p][3], "action") = JString("deleteDecks")

C5_DeleteDecksNeedsCardsToo ==
    \A p \in Procs :
        /\ DeleteDecksPosted(p)
           => /\ "params" \in JKeys(posted[p][3])
              /\ JGet(JGet(posted[p][3], "params"), "cardsToo") = JTrue
        /\ (pc[p] # "idle" /\ tool[p] = "anki_delete_decks"
                /\ DictGet(raw[p], "cardsToo") # PyTrue)
           => /\ Raised(outcome[p], "ValidationError")
              /\ posted[p] = NoPost

C5_Witness ==
    /\ DeleteDecksPosted(1)
    /\ pc[2] = "done" /\ tool[2] = "anki_delete_decks"
    /\ Raised(outcome[2], "ValidationError")

(***************************************************************************)
(* C6: when request returns and when it raises, by the error field.        *)
(***************************************************************************)
\* C6 as claimed: the result is returned whenever the error field is empty
\* (null, absent or the empty string), and AnkiConnectError is raised only
\* when the error field is non-empty.
C6_EmptyErrorReturns ==
    \A p \in Procs :
        (Done(p) /\ IsEnvelope(reply[p]))
        => /\ ErrorOf(reply[p]) \in {JNull, JAbsent, JString("")}
                => Returned(outcome[p])
           /\ Raised(outcome[p], "AnkiConnectError")
                => ErrorOf(reply[p]) \notin {JNull, JAbsent, JString("")}

\* C6 as amended: the result is returned exactly when the error field is
\* null or absent; every other error value, the empty string included,
\* raises AnkiConnectError carrying that value.
C6_NullErrorReturns ==
    \A p \in Procs :
        (Done(p) /\ IsEnvelope(reply[p]))
        => /\ Returned(outcome[p]) <=> ErrorOf(reply[p]) \in {JNull, JAbsent}
           /\ ~Returned(outcome[p])
                => outcome[p] = AnkiConnectError(JsonLoads(ErrorOf(reply[p])))

C6_Witness ==
    /\ Done(1)
    /\ IsEnvelope(reply[1])
    /\ ErrorOf(reply[1]) = JString("")
    /\ ResultOf(reply[1]) = JTrue
    /\ outcome[1] = AnkiConnectError(PyStr(""))

(***************************************************************************)
(* C7: when the envelope holds both an error and a result, the call raises *)
(* with the error and the result is not returned, whatever it is.          *)
(***************************************************************************)
C7_ResultIgnoredOnError ==
    \A p \in Procs :
        (Done(p) /\ IsEnvelope(reply[p])
            /\ ErrorOf(reply[p]) \notin {JNull, JAbsent}
            /\ ResultOf(reply[p]) # JAbsent)
        => /\ ~Returned(outcome[p])
           /\ Raised(outcome[p], "AnkiConnectError")
           /\ JsonDumps(outcome[p][3]) = ErrorOf(reply[p])

C7_Witness ==
    /\ Done(1)
    /\ reply[1] = HttpResponse(200, TRUE, Envelope(PyStr("deck was not found"), DeckList))
    /\ outcome[1] = AnkiConnectError(PyStr("deck was not found"))

(***************************************************************************)
(* C8: the body posted for a tool without parameters, or for a parameter   *)
(* object that is empty once its absent fields are dropped, has no         *)
(* "params" key.                                                           *)
(***************************************************************************)
\* the parameter object of call p after validation, absent fields dropped
DumpedParams(p) ==
    LET shape == ToolBinding(tool[p]).shape
    IN  model_dump(ModelValidate(shape, raw[p]))[2]

C8_NoParamsKeyWhenEmpty ==
    \A p \in Procs :
        (op[p] = "call_tool" /\ posted[p] # NoPost /\ DumpedParams(p) = <<>>)
        => "params" \notin JKeys(posted[p][3])

(***************************************************************************)
(* C9: the posted request envelope, parsed back, holds action, version,    *)
(* non-empty params and the configured key with their values, and holds    *)
(* neither empty params nor an absent key.                                 *)
(***************************************************************************)
C9_RequestRoundTrip ==
    \A p \in Procs :
        (op[p] = "call_tool" /\ posted[p] # NoPost)
        => LET parsed == JsonLoads(posted[p][3])[2]
           IN  /\ DictGet(parsed, "action") = PyStr(ToolBinding(tool[p]).action)
               /\ DictGet(parsed, "version") = config.version
               /\ IF DumpedParams(p) = <<>>
                  THEN "params" \notin Keys(parsed)
                  ELSE "params" \in Keys(parsed)
                       /\ DictGet(parsed, "params") = PyDict(DumpedParams(p))
               /\ IF IsNone(config.api_key)
                  THEN "key" \notin Keys(parsed)
                  ELSE DictGet(parsed, "key") = config.api_key

(***************************************************************************)
(* C10: a body that is no response envelope (not JSON, or JSON that is not *)
(* an object) makes request raise AnkiConnectError("Invalid response from  *)
(* Anki-Connect") and nothing else.                                        *)
(***************************************************************************)
C10_InvalidBodyIsTransportError ==
    \A p \in Procs :
        (Done(p) /\ reply[p].kind = "Response" /\ reply[p].status = 200
            /\ (~reply[p].json \/ reply[p].doc[1] # "object"))
        => outcome[p] = AnkiConnectError(PyStr("Invalid response from Anki-Connect"))

(***************************************************************************)
(* C11: when the HTTP layer answers with a non-success status, request     *)
(* raises AnkiConnectError with a message that holds the status code, and  *)
(* the body is not read as an envelope.                                    *)
(***************************************************************************)
C11_StatusErrorRaised ==
    \A p \in Procs :
        (Done(p) /\ reply[p].kind = "Response" /\ reply[p].status # 200)
        => /\ Raised(outcome[p], "AnkiConnectError")
           /\ outcome[p][3][1] = "fstr"
           /\ outcome[p][3][2] = "Anki-Connect returned HTTP error: "
           /\ outcome[p][3][3] = PyInt(reply[p].status)

C11_Witness ==
    /\ Done(1)
    /\ reply[1] = HttpResponse(500, TRUE, Envelope(PyNone, PyTrue))
    /\ outcome[1] =
        AnkiConnectError(FString("Anki-Connect returned HTTP error: ", PyInt(500)))

(***************************************************************************)
(* C12: when the endpoint is unreachable, the connection fails or the      *)
(* per-call timeout runs out, request raises AnkiConnectError and returns  *)
(* no value.                                                               *)
(***************************************************************************)
C12_NetworkFailureRaised ==
    \A p \in Procs :
        (Done(p) /\ reply[p].kind \in {"RequestError", "ReadTimeout"})
        => /\ Raised(outcome[p], "AnkiConnectError")
           /\ outcome[p][3][1] = "fstr"
           /\ outcome[p][3][2] = "Failed to connect to Anki-Connect: "

C12_Witness ==
    /\ Done(1)
    /\ reply[1] = TimeoutFailure
    /\ Raised(outcome[1], "AnkiConnectError")

(***************************************************************************)
(* C13: every call that reaches request calls client.post exactly once,    *)
(* whatever its outcome; no layer posts again after a failure.             *)
(***************************************************************************)
C13_OnePostPerCall ==
    \A p \in Procs :
        /\ pc[p] = "awaiting" => posts[p] = 1
        /\ (pc[p] = "done" /\ op[p] # "close"
                           /\ ~Raised(outcome[p], "ValidationError")
                           /\ ~Raised(outcome[p], "NotFoundError")) => posts[p] = 1

C13_Witness ==
    /\ Done(1) /\ posts[1] = 1 /\ reply[1] = NetworkFailure
    /\ Done(2) /\ posts[2] = 1 /\ RemoteFailure(reply[2])

\* the keys of the raw parameter object that the tool's shape does not declare
ExtraKeys(p) == Keys(raw[p]) \ FieldNames(ToolBinding(tool[p]).shape)

\* the keys given inside a deck configuration that DeckConfigObject does not
\* declare
ConfigExtraKeys(p) ==
    IF tool[p] = "anki_save_deck_config"
       /\ "config" \in Keys(raw[p])
       /\ DictGet(raw[p], "config")[1] = "dict"
    THEN Keys(DictGet(raw[p], "config")[2]) \ FieldNames(DeckConfigObject)
    ELSE {}

(***************************************************************************)
(* C14: a dispatch whose parameter object has a field that the binding's   *)
(* shape does not declare is rejected with ValidationError and posts       *)
(* nothing; an undeclared field inside the open-ended deck configuration   *)
(* is accepted and sent on.                                                *)
(***************************************************************************)
C14_ExtraFieldRejected ==
    \A p \in Procs :
        (pc[p] # "idle" /\ tool[p] \in Tools) =>
            /\ ExtraKeys(p) # {} =>
                    /\ Raised(outcome[p], "ValidationError")
                    /\ posted[p] = NoPost
            /\ (ExtraKeys(p) = {} /\ ConfigExtraKeys(p) # {}) =>
                    /\ posted[p] # NoPost
                    /\ ConfigExtraKeys(p) \subseteq
                            JKeys(JGet(JGet(posted[p][3], "params"), "config"))

(***************************************************************************)
(* C15: a call of an external name that no binding of the catalog carries  *)
(* fails with the unknown-name error (UnknownActionError in the            *)
(* specification, raised by the mcp object's tool lookup) whatever the     *)
(* name and the arguments, and posts nothing to the endpoint.              *)
(***************************************************************************)
C15_UnknownNameRejected ==
    \A p \in Procs :
        (op[p] = "call_tool" /\ tool[p] \notin Tools)
        => /\ pc[p] = "done"
           /\ outcome[p] = Raise("NotFoundError", FString("Unknown tool: ", PyStr(tool[p])))
           /\ posted[p] = NoPost
           /\ posts[p] = 0
           /\ reply[p] = NoReply

C15_Witness ==
    \E p \in Procs :
        /\ pc[p] = "done"
        /\ tool[p] = "deckNames"
        /\ raw[p] # <<>>
        /\ Raised(outcome[p], "NotFoundError")
        /\ posted[p] = NoPost

\* the fields of the tool's shape that declare a default other than None and
\* that the raw parameter object leaves out
OmittedDefaults(p) ==
    LET shape == ToolBinding(tool[p]).shape
    IN  {i \in 1..Len(shape) :
            /\ shape[i].default[1] \notin {"Ellipsis", "NoneType"}
            /\ shape[i].name \notin Keys(raw[p])}

\* the raw parameter object with every such field supplied with its default
WithDefaults(p) ==
    LET shape == ToolBinding(tool[p]).shape
        omitted == SelectSeq(shape, LAMBDA f :
                        /\ f.default[1] \notin {"Ellipsis", "NoneType"}
                        /\ f.name \notin Keys(raw[p]))
    IN  raw[p] \o [i \in 1..Len(omitted) |-> <<omitted[i].name, omitted[i].default>>]

(***************************************************************************)
(* C16: when the inbound parameters leave out a field that declares a      *)
(* non-null default, the posted request carries that field with the        *)
(* default value, and is the request the same call posts when the caller   *)
(* supplies the default explicitly.                                        *)
(***************************************************************************)
C16_DefaultsFilledIn ==
    \A p \in Procs :
        (op[p] = "call_tool" /\ posted[p] # NoPost /\ OmittedDefaults(p) # {})
        => LET binding == ToolBinding(tool[p])
           IN  /\ \A i \in OmittedDefaults(p) :
                    JGet(JGet(posted[p][3], "params"), binding.shape[i].name)
                        = JsonDumps(binding.shape[i].default)
               /\ posted[p] = Post(anki_client_instance[2], binding.action,
                                   ModelValidate(binding.shape, WithDefaults(p)))

C16_Witness ==
    \E p \in Procs :
        /\ Done(p)
        /\ tool[p] = "anki_get_card_intervals"
        /\ raw[p] = <<<<"cards", Cards12>>>>
        /\ JGet(JGet(posted[p][3], "params"), "complete") = JFalse
        /\ posted[p] = Post(anki_client_instance[2], "getIntervals",
                            ModelValidate(GetIntervalsParams,
                                <<<<"cards", Cards12>>, <<"complete", PyFalse>>>>))

(***************************************************************************)
(* C17: check_connection calls client.post once, with the action "version" *)
(* and no parameters, and returns True exactly when that request completes *)
(* without error (an answer of status 200 carrying an envelope whose error *)
(* is null or missing); after any failure, whatever its kind, it returns   *)
(* False and raises nothing.                                               *)
(***************************************************************************)
C17_CheckConnectionNeverRaises ==
    \A p \in Procs :
        op[p] = "check_connection"
        => /\ posts[p] = 1
           /\ posted[p] # NoPost
                => /\ JGet(posted[p][3], "action") = JsonDumps(PyStr("version"))
                   /\ "params" \notin JKeys(posted[p][3])
           /\ pc[p] = "done"
                => /\ outcome[p] \in {Return(PyTrue), Return(PyFalse)}
                   /\ outcome[p] = Return(PyTrue)
                        <=> /\ posted[p] # NoPost
                            /\ IsEnvelope(reply[p])
                            /\ ErrorOf(reply[p]) \in {JNull, JAbsent}

C17_Witness ==
    \E p \in Procs :
        /\ op[p] = "check_connection" /\ pc[p] = "done"
        /\ posted[p] # NoPost
        /\ reply[p] = HttpResponse(200, TRUE, JNumber(6))
        /\ outcome[p] = Return(PyFalse)

\* a step in which a tool call enters its handler and sends
EntersHandler(p) ==
    pc[p] = "idle" /\ op'[p] = "call_tool" /\ used'[p] # NotUsed

\* every operation that has sent did so on client object 1, the only one made
OneSharedInstance ==
    /\ anki_client_instance[1] = "NoneType" \/ anki_client_instance[3] = 1
    /\ \A p \in Procs :
            used[p] # NotUsed
            => /\ anki_client_instance[1] # "NoneType"
               /\ used[p][1] = anki_client_instance[3]

(***************************************************************************)
(* C18: there is no shared client object before the first tool call that   *)
(* enters its handler; that call creates it, and it is the only one ever   *)
(* created: every call, whether it succeeds or fails and whether it runs   *)
(* alone or beside others, sends on that same object.                      *)
(***************************************************************************)
C18_LazySingleInstance ==
    /\ anki_client_instance[1] = "NoneType"
    /\ []OneSharedInstance
    /\ [][anki_client_instance'[1] # anki_client_instance[1]
            => /\ anki_client_instance[1] = "NoneType"
               /\ \E p \in Procs : EntersHandler(p)]_vars

C18_Witness ==
    /\ Done(1) /\ Raised(outcome[1], "AnkiConnectError")
    /\ pc[2] = "awaiting" /\ op[2] = "call_tool"
    /\ used[1] = used[2]
    /\ used[1][1] = 1

\* every send went out on an open httpx client, the one self.client holds, and
\* every finished close has left self.client None
SendsOnOpenClient ==
    \A p \in Procs :
        /\ used[p] # NotUsed
            => /\ posted[p] # NoPost
               /\ ~Raised(outcome[p], "RuntimeError")
               /\ used[p][2] \notin closed
               /\ anki_client_instance[2].client = AsyncClient(used[p][2])
        /\ (op[p] = "close" /\ pc[p] = "done")
            => /\ IsNone(anki_client_instance[2].client)
               /\ outcome[p] = Return(PyNone)

\* a step that starts a close while self.client is None
ClosesReleased(p) ==
    /\ pc[p] = "idle" /\ op'[p] = "close"
    /\ IsNone(anki_client_instance[2].client)

\* a step that sends while self.client is None
SendsAfterRelease(p) ==
    /\ pc[p] = "idle" /\ used'[p] # NotUsed
    /\ anki_client_instance[1] # "NoneType"
    /\ IsNone(anki_client_instance[2].client)

(***************************************************************************)
(* C19: when close and send are called one after another, a send that      *)
(* follows a close makes a new httpx client and posts on it as any call    *)
(* does, no send fails because the client was closed, and a close of a     *)
(* handle already released changes nothing and returns None.               *)
(***************************************************************************)
C19_CloseThenSendRecreates ==
    /\ []SendsOnOpenClient
    /\ [][\A p \in Procs :
            /\ ClosesReleased(p)
                => /\ pc'[p] = "done"
                   /\ outcome'[p] = Return(PyNone)
                   /\ UNCHANGED <<anki_client_instance, http_clients, closed>>
            /\ SendsAfterRelease(p)
                => /\ http_clients' = http_clients + 1
                   /\ used'[p][2] = http_clients'
                   /\ pc'[p] = "awaiting"]_vars

C19_Witness ==
    /\ Done(1) /\ Returned(outcome[1])
    /\ used[1][2] = 2
    /\ closed = {1}
    /\ pc[2] = "idle"

\* a step in which the tool call p ends with a failure
FailsNow(p) ==
    /\ pc[p] # "done" /\ pc'[p] = "done"
    /\ op'[p] = "call_tool"
    /\ outcome'[p][1] = "raise"

\* two answered tool calls with the same name, arguments and answer have
\* sent the same request and have the same outcome
SameCallSameOutcome ==
    \A p, q \in Procs :
        (Done(p) /\ Done(q) /\ tool[p] = tool[q] /\ raw[p] = raw[q]
            /\ reply[p] = reply[q])
        => /\ outcome[p] = outcome[q]
           /\ posted[p] = posted[q]

(***************************************************************************)
(* C20: a tool call that fails leaves the shared handle as it was (the     *)
(* same client object, the same httpx client, not closed), and the outcome *)
(* of an answered call is a function of its name, its arguments and its    *)
(* answer alone: two calls with the same ones, whatever happened before or *)
(* beside them, have the same outcome (anki_suspend_cards with cards       *)
(* [1,2] answered true returns true each time).                            *)
(***************************************************************************)
C20_FailureLeavesHandleAlone ==
    /\ []SameCallSameOutcome
    /\ [][\A p \in Procs :
            FailsNow(p) => UNCHANGED <<anki_client_instance, http_clients, closed>>]_vars

C20_Witness ==
    /\ Done(1) /\ Done(2)
    /\ tool[1] = "anki_suspend_cards" /\ tool[2] = "anki_suspend_cards"
    /\ raw[1] = <<<<"cards", Cards12>>>> /\ raw[2] = raw[1]
    /\ reply[1] = HttpResponse(200, TRUE, Envelope(PyNone, PyTrue))
    /\ reply[2] = reply[1]
    /\ outcome[1] = Return(PyTrue) /\ outcome[2] = Return(PyTrue)

(***************************************************************************)
(* C21: tool calls overlap on the shared client: one posts while another   *)
(* awaits its answer.  In every interleaving the request a call has posted *)
(* carries the action of its own tool and its own parameters, and its      *)
(* outcome comes from the answer to its own request: the result member of  *)
(* that answer, or AnkiConnectError with the error string of that answer.  *)
(***************************************************************************)
C21_OwnRequestOwnOutcome ==
    \A p \in Procs :
        (op[p] = "call_tool" /\ posted[p] # NoPost)
        => /\ JGet(posted[p][3], "action") = JsonDumps(PyStr(ToolBinding(tool[p]).action))
           /\ JGet(posted[p][3], "params") \in {JAbsent, JsonDumps(PyDict(DumpedParams(p)))}
           /\ pc[p] = "awaiting" => outcome[p] = Pending /\ reply[p] = NoReply
           /\ (pc[p] = "done" /\ IsEnvelope(reply[p]))
                => IF ErrorOf(reply[p]) \in {JNull, JAbsent}
                   THEN /\ Returned(outcome[p])
                        /\ JsonDumps(outcome[p][2]) \in {ResultOf(reply[p]), JNull}
                        /\ ResultOf(reply[p]) # JAbsent
                                => JsonDumps(outcome[p][2]) = ResultOf(reply[p])
                   ELSE ErrorOf(reply[p])[1] = "string"
                            => outcome[p] = AnkiConnectError(PyStr(ErrorOf(reply[p])[2]))

C21_Witness ==
    /\ pc[1] = "awaiting" /\ op[1] = "call_tool"
    /\ Done(2)
    /\ tool[1] = "anki_get_deck_names" /\ tool[2] = "anki_suspend_cards"
    /\ posted[1] # posted[2]
    /\ used[1] = used[2]
    /\ outcome[2] = AnkiConnectError(PyStr("deck was not found"))

(***************************************************************************)
(* C22: when the HTTP layer answers every POST in the end (a response, a   *)
(* network failure or a timeout), every call that has posted its request   *)
(* finishes, with a value or with a failure; and the answer to a call can  *)
(* be taken whatever the other calls are doing: no call waits for another. *)
(***************************************************************************)
C22_SentCallsFinish ==
    /\ \A p \in Procs :
            (pc[p] = "awaiting") ~> (pc[p] = "done" /\ outcome[p][1] \in {"return", "raise"})
    /\ [](\A p \in Procs :
            pc[p] = "awaiting" => ENABLED (\E r \in BackgroundReplies : HttpRespond(p, r)))

C22_Witness ==
    /\ pc[1] = "done" /\ op[1] = "call_tool" /\ reply[1] = TimeoutFailure
    /\ Raised(outcome[1], "AnkiConnectError")
    /\ pc[2] = "awaiting"

(***************************************************************************)
(* C24: in every interleaving of request and close on the shared handle,   *)
(* a request never posts on an httpx client that is closed or being        *)
(* closed: self.client is not None at the post, and a tool call that       *)
(* overlaps a close completes normally or fails with AnkiConnectError.     *)
(***************************************************************************)
C24_NoPostOnClosingClient ==
    \A p \in Procs :
        (op[p] = "call_tool" /\ used[p] # NotUsed)
        => /\ used[p][2] # 0
           /\ posted[p] # NoPost
           /\ ~Raised(outcome[p], "RuntimeError")

(***************************************************************************)
(* C26: when several first tool calls start while no shared client exists  *)
(* and nothing has been closed, exactly one AsyncAnkiConnectClient and one *)
(* httpx client are created, and all of those calls send on them.          *)
(***************************************************************************)
C26_OneClientForConcurrentFirstCalls ==
    closed = {}
    => /\ http_clients <= 1
       /\ anki_client_instance[1] = "NoneType" <=> http_clients = 0
       /\ \A p \in Procs :
            used[p] # NotUsed
            => /\ used[p] = <<1, 1>>
               /\ anki_client_instance[3] = 1
               /\ anki_client_instance[2].client = AsyncClient(1)

C26_Witness ==
    /\ closed = {}
    /\ pc[1] = "awaiting" /\ pc[2] = "awaiting"
    /\ op[1] = "call_tool" /\ op[2] = "call_tool"
    /\ used[1] = <<1, 1>> /\ used[2] = <<1, 1>>
    /\ http_clients = 1

(***************************************************************************)
(* C27: after clean_proxy has returned, none of http_proxy, HTTP_PROXY,    *)
(* https_proxy and HTTPS_PROXY is set, whichever of them were set before.  *)
(***************************************************************************)
C27_ProxyVariablesCleared ==
    main_pc # "imported" => environ \cap ProxyVars = {}

(***************************************************************************)
(* C28: every request is posted to the URL given on the command line: main *)
(* has stored it in the configuration before the shared client exists, the *)
(* client takes it from the configuration when it is created, and a later  *)
(* change of the configuration does not reach it.                          *)
(***************************************************************************)
C28_CommandLineUrlUsed ==
    /\ main_pc = "imported" => anki_client_instance[1] = "NoneType"
    /\ anki_client_instance[1] # "NoneType"
            => anki_client_instance[2].url = argv.anki_connect_url
    /\ \A p \in Procs :
            posted[p] # NoPost => posted[p][2] = argv.anki_connect_url

C28_Witness ==
    /\ argv.anki_connect_url = PyStr("http://remote:8765")
    /\ config.url = DefaultUrl
    /\ pc[1] = "awaiting"
    /\ posted[1][2] = PyStr("http://remote:8765")

(***************************************************************************)
(* C30: when the server is started through main with --log-level L, the    *)
(* level of the root logger while tool calls are served is L.              *)
(***************************************************************************)
C30_LogLevelInEffect ==
    main_pc = "serving" => root_logger.level = Upper(argv.log_level)

(***************************************************************************)
(* C23: get_client returns the singleton client: any two calls of          *)
(* get_client in one process return the same AsyncAnkiConnectClient        *)
(* object, and that object is the one the tool dispatch path uses.         *)
(***************************************************************************)
C23_GetClientReturnsTheSingleton ==
    /\ \A i, j \in 1..Len(got) : got[i][3] = got[j][3]
    /\ \A i \in 1..Len(got) :
            anki_client_instance[1] # "NoneType"
                => got[i][3] = anki_client_instance[3]

(***************************************************************************)
(* C25: after any sequence of __aenter__, __aexit__, _ensure_client,       *)
(* request and close on one client, every httpx client it has made is the  *)
(* current one or has been closed, so that at most one is open.            *)
(***************************************************************************)
C25_NoOpenClientReplaced ==
    own # NoInstance
        => /\ \A id \in own_made :
                id \in closed \/ own[2].client = AsyncClient(id)
           /\ Cardinality(own_made \ closed) <= 1

\* the client object as it would be with every given argument taken as given
AsGiven(a, cfg) ==
    [url |-> IF IsNone(a.url) THEN cfg.url ELSE a.url,
     api_key |-> IF IsNone(a.api_key) THEN cfg.api_key ELSE a.api_key,
     version |-> IF IsNone(a.version) THEN cfg.version ELSE a.version,
     timeout |-> IF IsNone(a.timeout) THEN cfg.timeout ELSE a.timeout,
     client |-> PyNone]

(***************************************************************************)
(* C29: a request of a client is sent with the url, key, version and       *)
(* timeout its constructor was given, whatever the given value (0 and ""   *)
(* included), and with the configured value for an argument not given.     *)
(***************************************************************************)
C29_GivenArgumentsUsed ==
    own_post.post # NoPost
        => /\ own_post.timeout = AsGiven(own_args, config).timeout
           /\ \E action \in OwnActions :
                own_post.post = Post(AsGiven(own_args, config), action, PyNone)

====
